---- MODULE Spec2Model ----
(***************************************************************************)
(* Model of the koordlet resource manager's eviction path:                 *)
(*   pkg/koordlet/resmanager/resmanager.go   (eviction executor, killer)   *)
(*   pkg/koordlet/resmanager/memory_evict.go (BE memory evictor)           *)
(* Time is a discrete clock `now`; durations are counted in clock units.   *)
(***************************************************************************)
EXTENDS Integers, Sequences, FiniteSets, TLC

----------------------------------------------------------------------------
(* Bounds of the model *)

\* the clock runs from 0 to MaxTime
MaxTime == 3
\* at most MaxCalls cluster-API eviction calls are recorded in apiLog
MaxCalls == 3
\* a pod handed to killContainers alone has at most MaxContainers containers
MaxContainers == 3

(* Program constants *)

memoryReleaseBufferPercent == 2
\* default TTL of the expiring key set (expireCache.NewCacheDefault)
DefaultExpiration == 2

----------------------------------------------------------------------------
(* Values *)

\* a Go pointer: nil, or a pointer to val
NilPtr == [set |-> FALSE, val |-> 0]
Ptr(v) == [set |-> TRUE, val |-> v]
NilBoolPtr == [set |-> FALSE, val |-> FALSE]

QoSBE == "BE"
QoSLS == "LS"

\* a container of a pod with its status entry; stopErr says that the
\* runtime answers StopContainer with an error
Container(hasStatus, running, hasID, runtimeKnown) ==
    [hasStatus |-> hasStatus, running |-> running, hasID |-> hasID,
     runtimeKnown |-> runtimeKnown, stopErr |-> FALSE]
RunningContainer == Container(TRUE, TRUE, TRUE, TRUE)

\* the containers killContainers tells apart: running, running in a runtime
\* whose StopContainer fails, without status entry, not running, running in
\* an unknown runtime, running with an empty container ID
ContainerKinds ==
    {RunningContainer,
     [RunningContainer EXCEPT !.stopErr = TRUE],
     Container(FALSE, FALSE, FALSE, FALSE),
     Container(TRUE, FALSE, TRUE, TRUE),
     Container(TRUE, TRUE, TRUE, FALSE),
     Container(TRUE, TRUE, FALSE, FALSE)}

\* the container lists of a pod, in the order of pod.Spec.Containers
RECURSIVE ContainerLists(_)
ContainerLists(n) ==
    IF n = 0 THEN {<<>>}
    ELSE ContainerLists(n - 1)
         \cup {Append(cs, c) : cs \in {x \in ContainerLists(n - 1) : Len(x) = n - 1},
                               c \in ContainerKinds}

\* corev1.Pod: name is the rank of the pod's name in lexicographic order
Pod(uid, name, qos, priority, containers) ==
    [uid |-> uid, name |-> name, qos |-> qos, priority |-> priority,
     containers |-> containers]

PodA == Pod(1, 1, QoSBE, Ptr(5), <<RunningContainer, RunningContainer>>)
PodB == Pod(2, 2, QoSBE, NilPtr, <<RunningContainer>>)
PodC == Pod(3, 3, QoSLS, Ptr(9), <<RunningContainer>>)

AllPods == {PodA, PodB, PodC}
UIDs == {p.uid : p \in AllPods}
PodByUID(uid) == CHOOSE p \in AllPods : p.uid = uid

\* results of statesInformer.GetAllPods()
PodLists == {<<PodC>>, <<PodA, PodB, PodC>>}

\* results of collectAllPodMetricsLast(PodMemUsageMetric): uid -> memUsed,
\* a missing key reads as 0
PodMetricMaps ==
    {[u \in UIDs |-> 0], (1 :> 2) @@ (2 :> 1) @@ (3 :> 5)}

\* the BE pods of a node in any order of statesInformer.GetAllPods() and
\* with any scheduling priority, unset included
WavePriorities == {NilPtr, Ptr(1), Ptr(2)}
WavePodLists ==
    {[i \in 1..Cardinality(UIDs) |->
         Pod(f[i], f[i], QoSBE, pr[f[i]], <<RunningContainer>>)] :
        f \in {g \in [1..Cardinality(UIDs) -> UIDs] :
                  \A i, j \in 1..Cardinality(UIDs) : g[i] = g[j] => i = j},
        pr \in [UIDs -> WavePriorities]}

\* their memory samples, 0 for a pod without sample
WavePodMetricMaps == [UIDs -> 0..2]

\* capacity and usage of the node: at the threshold, above it with exact and
\* inexact divisions, and below it
WaveNodeUsages == {<<10, 7>>, <<10, 8>>, <<30, 22>>, <<100, 80>>, <<30, 20>>}

\* slov1alpha1.NodeSLO as read by the memory evictor
NodeSLO(isNil, specEmpty, strategy) ==
    [isNil |-> isNil, specEmpty |-> specEmpty, strategy |-> strategy]
NilStrategy ==
    [set |-> FALSE, enable |-> NilBoolPtr, thresholdPercent |-> NilPtr,
     lowerPercent |-> NilPtr]
Strategy(enable, thresholdPercent, lowerPercent) ==
    [set |-> TRUE, enable |-> enable, thresholdPercent |-> thresholdPercent,
     lowerPercent |-> lowerPercent]

\* the strategies with Enable = true
EnabledStrategies ==
    {Strategy(Ptr(TRUE), NilPtr, Ptr(60)),
     Strategy(Ptr(TRUE), Ptr(-1), NilPtr),
     Strategy(Ptr(TRUE), Ptr(50), NilPtr),
     Strategy(Ptr(TRUE), Ptr(50), Ptr(60)),
     Strategy(Ptr(TRUE), Ptr(70), NilPtr),
     Strategy(Ptr(TRUE), Ptr(70), Ptr(60))}

NodeSLOs ==
    {NodeSLO(TRUE, TRUE, NilStrategy),
     NodeSLO(FALSE, TRUE, NilStrategy),
     NodeSLO(FALSE, FALSE, NilStrategy),
     NodeSLO(FALSE, FALSE, Strategy(NilBoolPtr, Ptr(50), NilPtr)),
     NodeSLO(FALSE, FALSE, Strategy(Ptr(FALSE), Ptr(50), NilPtr)),
     NodeSLO(FALSE, FALSE, Strategy(Ptr(FALSE), Ptr(70), Ptr(60)))}
    \cup {NodeSLO(FALSE, FALSE, st) : st \in EnabledStrategies}

\* results of statesInformer.GetNode()
Nodes == {[isNil |-> TRUE, memoryCapacity |-> 0],
          [isNil |-> FALSE, memoryCapacity |-> 0],
          [isNil |-> FALSE, memoryCapacity |-> 10]}

\* outcome of BuildQueryMeta followed by collectorNodeMetricLast
NodeMetrics == {[err |-> "BuildQueryMeta", val |-> 0],
                [err |-> "Query", val |-> 0],
                [err |-> "", val |-> 4],
                [err |-> "", val |-> 8]}

\* the configurations: a cooldown shorter than the TTL of the evicted set,
\* and one as long as it
Configs == [MemoryEvictCoolTimeSeconds : {1, DefaultExpiration}]

\* the reconcilers that call the eviction executor, and a caller that
\* evicts one pod twice back to back
Callers == {"mem", "cpu", "twice"}

\* the reconcilers Run constructs and hands to the feature-gate runner, in
\* the order of the code
Reconcilers ==
    <<"cgroupResourceReconcile", "cpuSuppress", "cpuBurst", "systemConfigReconcile",
      "cpuEvictor", "memoryEvictor", "rdtResCtrl", "blkioReconcile">>

\* the values of collectResUsedIntervalSeconds a manager is constructed with
Intervals == {-1, 0, 1}

\* the manager before Run is called
NewRun(collectResUsedIntervalSeconds) ==
    [pc |-> "entry",
     collectResUsedIntervalSeconds |-> collectResUsedIntervalSeconds,
     stopCh |-> FALSE,          \* stopCh is closed
     hasSynced |-> FALSE,       \* statesInformer.HasSynced()
     sweeper |-> FALSE,         \* podsEvicted.Run was called
     greyCtrl |-> FALSE,        \* RunQOSGreyCtrlPlugins was started
     constructed |-> 0,         \* how many reconcilers were constructed
     spawned |-> {},            \* the reconcilers the runner started
     plugins |-> FALSE,         \* plugins.StartPlugins was called
     result |-> "none"]

\* the manager while Run is blocked on stopCh with everything started
Running ==
    [NewRun(1) EXCEPT !.pc = "blocked", !.hasSynced = TRUE, !.sweeper = TRUE,
                      !.greyCtrl = TRUE, !.constructed = Len(Reconcilers),
                      !.spawned = {Reconcilers[i] : i \in 1..Len(Reconcilers)},
                      !.plugins = TRUE]

----------------------------------------------------------------------------
VARIABLES
    now,            \* the clock (time.Now())
    config,         \* resmanager.config
    lastEvictTime,  \* MemoryEvictor.lastEvictTime
    podsEvicted,    \* resmanager.podsEvicted: uid -> expiration time, 0 = absent
    pc,             \* position of each caller
    evictPods,      \* the batch each caller hands to evictPodsIfNotEvicted
    idx,            \* index of the pod of the batch being handled
    attempts,       \* what happened to the pods of the current batch so far
    apiLog,         \* the cluster-API eviction calls made so far
    emitted,        \* audit records, API calls, events and counter increments,
                    \* in the order evictPod made them
    tick,           \* what the last memoryEvict tick read and did
    run             \* resmanager.Run: its position, what it started, stopCh and
                    \* the states informer's HasSynced

vars == <<now, config, lastEvictTime, podsEvicted, pc, evictPods, idx,
          attempts, apiLog, emitted, tick, run>>

----------------------------------------------------------------------------
(* Expiring key set (pkg/util/cache) *)

\* Cache.Get: present when the entry exists and has not expired
cacheGet(cache, key, t) == cache[key] # 0 /\ t < cache[key]

\* Cache.SetDefault: insert with the default TTL
cacheSetDefault(cache, key, t) == [cache EXCEPT ![key] = t + DefaultExpiration]

----------------------------------------------------------------------------
(* memory_evict.go *)

\* mutant: Enable = false is not taken as disabled
isFeatureDisabledIgnoresEnable(nodeSLO) ==
    IF nodeSLO.isNil \/ nodeSLO.specEmpty
    THEN [disabled |-> TRUE, err |-> TRUE]
    ELSE IF ~nodeSLO.strategy.set \/ ~nodeSLO.strategy.enable.set
    THEN [disabled |-> TRUE, err |-> TRUE]
    ELSE [disabled |-> FALSE, err |-> FALSE]

\* isFeatureDisabled(nodeSLO, features.BEMemoryEvict)
isFeatureDisabled(nodeSLO) ==
    IF nodeSLO.isNil \/ nodeSLO.specEmpty
    THEN [disabled |-> TRUE, err |-> TRUE]
    ELSE IF ~nodeSLO.strategy.set \/ ~nodeSLO.strategy.enable.set
    THEN [disabled |-> TRUE, err |-> TRUE]
    ELSE [disabled |-> ~nodeSLO.strategy.enable.val, err |-> FALSE]

\* mutant: the release buffer is not subtracted
lowerPercentOfNoBuffer(thresholdConfig) ==
    IF thresholdConfig.lowerPercent.set
    THEN thresholdConfig.lowerPercent.val
    ELSE thresholdConfig.thresholdPercent.val

\* the lower bound memoryEvict uses
lowerPercentOf(thresholdConfig) ==
    IF thresholdConfig.lowerPercent.set
    THEN thresholdConfig.lowerPercent.val
    ELSE thresholdConfig.thresholdPercent.val - memoryReleaseBufferPercent

\* the guard lowerPercent >= *thresholdPercent
lowerPercentInvalid(lowerPercent, thresholdPercent) ==
    lowerPercent >= thresholdPercent

\* Go integer division (truncates toward zero)
GoDiv(a, b) ==
    IF (a >= 0) = (b > 0) THEN a \div b ELSE -((-a) \div b)

\* mutant: the pressure gate never stops the tick
belowThresholdNever(nodeMemoryUsage, thresholdPercent) == FALSE

\* the pressure gate nodeMemoryUsage < *thresholdPercent
belowThreshold(nodeMemoryUsage, thresholdPercent) ==
    nodeMemoryUsage < thresholdPercent

\* mutant: the division is done before the multiplication
nodeMemoryUsageOfDivideFirst(nodeMemoryUsed, memoryCapacity) ==
    GoDiv(nodeMemoryUsed, memoryCapacity) * 100

\* the usage in percent; the sample is a byte count, on which
\* int64(nodeMemoryUsed) is exact
nodeMemoryUsageOf(nodeMemoryUsed, memoryCapacity) ==
    GoDiv(nodeMemoryUsed * 100, memoryCapacity)

memoryNeedReleaseOf(memoryCapacity, nodeMemoryUsage, lowerPercent) ==
    GoDiv(memoryCapacity * (nodeMemoryUsage - lowerPercent), 100)

\* An observation is what one tick reads from its collaborators, in the
\* order of the reads; <<>> marks a read the tick did not make.
NoObs == [nodeSLO |-> <<>>, podMetrics |-> <<>>, node |-> <<>>,
          nodeMetric |-> <<>>, allPods |-> <<>>]

\* where memoryEvict returns after the cooldown check, given what it read;
\* "more" when the code goes on to a read the observation does not hold yet
memoryEvictExit(obs) ==
    IF obs.nodeSLO = <<>> THEN "more"
    ELSE LET nodeSLO == obs.nodeSLO[1]
             fd == isFeatureDisabled(nodeSLO)
             thresholdConfig == nodeSLO.strategy
             thresholdPercent == thresholdConfig.thresholdPercent
         IN
    IF fd.err THEN "featureErr"
    ELSE IF fd.disabled THEN "disabled"
    ELSE IF ~thresholdPercent.set THEN "thresholdNil"
    ELSE IF thresholdPercent.val < 0 THEN "thresholdNegative"
    ELSE IF lowerPercentInvalid(lowerPercentOf(thresholdConfig), thresholdPercent.val)
    THEN "lowerPercent"
    ELSE IF obs.podMetrics = <<>> \/ obs.node = <<>> THEN "more"
    ELSE IF obs.node[1].isNil THEN "nodeNil"
    ELSE IF obs.node[1].memoryCapacity <= 0 THEN "capacity"
    ELSE IF obs.nodeMetric = <<>> THEN "more"
    ELSE IF obs.nodeMetric[1].err = "BuildQueryMeta" THEN "queryMeta"
    ELSE IF obs.nodeMetric[1].err = "Query" THEN "query"
    ELSE IF belowThreshold(
                nodeMemoryUsageOf(obs.nodeMetric[1].val, obs.node[1].memoryCapacity),
                thresholdPercent.val)
    THEN "belowThreshold"
    ELSE IF obs.allPods = <<>> THEN "more"
    ELSE "wave"

\* the observations a tick can make: each read is made only when the code
\* reaches it
ObsSLO == {[NoObs EXCEPT !.nodeSLO = <<s>>] : s \in NodeSLOs}
ObsNode ==
    {[o EXCEPT !.podMetrics = <<m>>, !.node = <<n>>] :
        o \in {x \in ObsSLO : memoryEvictExit(x) = "more"},
        m \in PodMetricMaps, n \in Nodes}
ObsNodeMetric ==
    {[o EXCEPT !.nodeMetric = <<u>>] :
        o \in {x \in ObsNode : memoryEvictExit(x) = "more"}, u \in NodeMetrics}
ObsPods ==
    {[o EXCEPT !.allPods = <<l>>] :
        o \in {x \in ObsNodeMetric : memoryEvictExit(x) = "more"}, l \in PodLists}
Observations ==
    {o \in ObsSLO \cup ObsNode \cup ObsNodeMetric \cup ObsPods :
        memoryEvictExit(o) # "more"}

\* what a tick reads from its collaborators when no read fails
WaveObs(st, m, nu, l) ==
    [nodeSLO |-> <<NodeSLO(FALSE, FALSE, st)>>,
     podMetrics |-> <<m>>,
     node |-> <<[isNil |-> FALSE, memoryCapacity |-> nu[1]]>>,
     nodeMetric |-> <<[err |-> "", val |-> nu[2]]>>,
     allPods |-> l]

\* the observations of such ticks under a NodeSLO with threshold 70: any
\* pods and samples under a small budget, and a few pods and samples under
\* any of the budgets; the pods are read only when the usage reaches the
\* threshold
WaveObservations ==
    LET o1 == {WaveObs(Strategy(Ptr(TRUE), Ptr(70), Ptr(60)), m, nu, <<l>>) :
                  m \in WavePodMetricMaps, nu \in {<<10, 8>>},
                  l \in WavePodLists}
        o2 == {WaveObs(st, m, nu, l) :
                  st \in {Strategy(Ptr(TRUE), Ptr(70), NilPtr),
                          Strategy(Ptr(TRUE), Ptr(70), Ptr(60))},
                  m \in {(1 :> 2) @@ (2 :> 1) @@ (3 :> 0)},
                  nu \in WaveNodeUsages,
                  l \in {<<>>, <<<<PodA, PodB, PodC>>>>}}
    IN {o \in o1 \cup o2 :
           memoryEvictExit(o) = IF o.allPods = <<>> THEN "belowThreshold" ELSE "wave"}

\* the observations of ticks under memory pressure on a node whose only BE
\* pod has any list of containers
KillObservations ==
    {WaveObs(Strategy(Ptr(TRUE), Ptr(70), Ptr(60)), (1 :> 2) @@ (2 :> 0) @@ (3 :> 0),
             <<10, 8>>, <<<<Pod(1, 1, QoSBE, NilPtr, cs), PodC>>>>) :
        cs \in ContainerLists(MaxContainers)}

\* the comparison of sort.Slice in getSortedBEPodInfos
less(a, b) ==
    IF a.pod.priority.set /\ b.pod.priority.set
       /\ a.pod.priority.val # b.pod.priority.val
    THEN a.pod.priority.val < b.pod.priority.val
    ELSE IF a.memUsed # 0 /\ b.memUsed # 0 THEN a.memUsed > b.memUsed
    ELSE IF a.memUsed = 0 /\ b.memUsed = 0 THEN a.pod.name > b.pod.name
    ELSE b.memUsed = 0

Swap(s, i, j) == [s EXCEPT ![i] = s[j], ![j] = s[i]]

\* sort.Slice on a short slice is an insertion sort
RECURSIVE sinkDown(_, _)
sinkDown(s, j) ==
    IF j > 1 /\ less(s[j], s[j - 1]) THEN sinkDown(Swap(s, j, j - 1), j - 1) ELSE s

RECURSIVE insertionSort(_, _)
insertionSort(s, i) ==
    IF i > Len(s) THEN s ELSE insertionSort(sinkDown(s, i), i + 1)

\* mutant: a pod in the evicted set is not selected as a victim
isBEPodNotEvicted(pod) == pod.qos = QoSBE /\ ~cacheGet(podsEvicted, pod.uid, now)

\* mutant: every pod passes the QoS filter
isBEPodAny(pod) == TRUE

\* the QoS filter of getSortedBEPodInfos
isBEPod(pod) == pod.qos = QoSBE

RECURSIVE bePodInfosOf(_, _)
bePodInfosOf(allPods, podMetricMap) ==
    IF allPods = <<>> THEN <<>>
    ELSE LET pod == Head(allPods)
             rest == bePodInfosOf(Tail(allPods), podMetricMap)
         IN IF isBEPod(pod)
            THEN <<[pod |-> pod, memUsed |-> podMetricMap[pod.uid]]>> \o rest
            ELSE rest

getSortedBEPodInfos(allPods, podMetricMap) ==
    insertionSort(bePodInfosOf(allPods, podMetricMap), 2)

\* mutant: a container that is not running is passed over
RECURSIVE killContainersFromSkipNotRunning(_, _)
killContainersFromSkipNotRunning(containers, i) ==
    IF i > Len(containers) THEN <<>>
    ELSE IF ~containers[i].hasStatus THEN <<>>
    ELSE IF ~containers[i].running
    THEN killContainersFromSkipNotRunning(containers, i + 1)
    ELSE IF containers[i].hasID /\ containers[i].runtimeKnown
    THEN <<i>> \o killContainersFromSkipNotRunning(containers, i + 1)
    ELSE killContainersFromSkipNotRunning(containers, i + 1)

\* killContainers: the indices of the containers StopContainer is called
\* for; an error of StopContainer is logged and the walk goes on
RECURSIVE killContainersFrom(_, _)
killContainersFrom(containers, i) ==
    IF i > Len(containers) THEN <<>>
    ELSE IF ~containers[i].hasStatus THEN <<>>
    ELSE IF ~containers[i].running THEN <<>>
    ELSE IF containers[i].hasID /\ containers[i].runtimeKnown
    THEN <<i>> \o killContainersFrom(containers, i + 1)
    ELSE killContainersFrom(containers, i + 1)

killContainers(pod) == killContainersFrom(pod.containers, 1)

\* mutant: the loop goes on until more than the budget is released
RECURSIVE drainPastBudget(_, _, _, _)
drainPastBudget(bePodInfos, i, memoryReleased, memoryNeedRelease) ==
    IF i > Len(bePodInfos) \/ memoryReleased > memoryNeedRelease THEN <<>>
    ELSE <<bePodInfos[i].pod>>
         \o drainPastBudget(bePodInfos, i + 1,
                  memoryReleased
                    + (IF bePodInfos[i].memUsed # 0 THEN bePodInfos[i].memUsed ELSE 0),
                  memoryNeedRelease)

\* the drain loop of killAndEvictBEPods: the pods killed, in order; the
\* samples are byte counts, on which int64(memUsed) is exact
RECURSIVE drain(_, _, _, _)
drain(bePodInfos, i, memoryReleased, memoryNeedRelease) ==
    IF i > Len(bePodInfos) \/ memoryReleased >= memoryNeedRelease THEN <<>>
    ELSE <<bePodInfos[i].pod>>
         \o drain(bePodInfos, i + 1,
                  memoryReleased
                    + (IF bePodInfos[i].memUsed # 0 THEN bePodInfos[i].memUsed ELSE 0),
                  memoryNeedRelease)

RECURSIVE stopCallsOf(_)
stopCallsOf(pods) ==
    IF pods = <<>> THEN <<>>
    ELSE [j \in 1..Len(killContainers(Head(pods))) |->
            <<Head(pods).uid, killContainers(Head(pods))[j]>>]
         \o stopCallsOf(Tail(pods))

UIDsOf(pods) == [j \in 1..Len(pods) |-> pods[j].uid]

NoTick == [obs |-> NoObs, exit |-> "none", lowerPercent |-> 0,
           nodeMemoryUsage |-> 0, memoryNeedRelease |-> 0, bePodInfos |-> <<>>,
           killCalls |-> <<>>, stopCalls |-> <<>>]

\* start of a batch handed to evictPodsIfNotEvicted by caller r; done is the
\* caller's position after the batch
startBatch(r, uids, done) ==
    /\ evictPods' = [evictPods EXCEPT ![r] = uids]
    /\ attempts' = [attempts EXCEPT ![r] = <<>>]
    /\ idx' = [idx EXCEPT ![r] = 1]
    /\ pc' = [pc EXCEPT ![r] = IF uids = <<>> THEN done ELSE "get"]

\* killAndEvictBEPods up to the call of evictPodsIfNotEvicted
killAndEvictBEPods(obs, lowerPercent, memoryNeedRelease) ==
    LET bePodInfos == getSortedBEPodInfos(obs.allPods[1], obs.podMetrics[1])
        killedPods == drain(bePodInfos, 1, 0, memoryNeedRelease)
    IN /\ tick' = [obs |-> obs, exit |-> "wave", lowerPercent |-> lowerPercent,
                   nodeMemoryUsage |->
                       nodeMemoryUsageOf(obs.nodeMetric[1].val,
                                         obs.node[1].memoryCapacity),
                   memoryNeedRelease |-> memoryNeedRelease,
                   bePodInfos |-> bePodInfos,
                   killCalls |-> UIDsOf(killedPods),
                   stopCalls |-> stopCallsOf(killedPods)]
       /\ startBatch("mem", UIDsOf(killedPods), "stamp")

\* the returns of memoryEvict that follow the computation of lowerPercent
LowerPercentExits == {"lowerPercent", "nodeNil", "capacity", "queryMeta", "query",
                      "belowThreshold", "wave"}

\* the part of memoryEvict after the cooldown check
memoryEvictBody(obs) ==
    LET exit == memoryEvictExit(obs) IN
    IF exit = "wave"
    THEN LET thresholdConfig == obs.nodeSLO[1].strategy
             lowerPercent == lowerPercentOf(thresholdConfig)
             memoryCapacity == obs.node[1].memoryCapacity
             nodeMemoryUsage ==
                 nodeMemoryUsageOf(obs.nodeMetric[1].val, memoryCapacity)
         IN killAndEvictBEPods(obs, lowerPercent,
                memoryNeedReleaseOf(memoryCapacity, nodeMemoryUsage, lowerPercent))
    ELSE /\ tick' = [NoTick EXCEPT
                       !.obs = obs, !.exit = exit,
                       !.lowerPercent =
                           IF exit \in LowerPercentExits
                           THEN lowerPercentOf(obs.nodeSLO[1].strategy) ELSE 0,
                       !.nodeMemoryUsage =
                           IF exit = "belowThreshold"
                           THEN nodeMemoryUsageOf(obs.nodeMetric[1].val,
                                                  obs.node[1].memoryCapacity)
                           ELSE 0]
         /\ UNCHANGED <<pc, evictPods, idx, attempts>>

\* mutant: the cooldown is not added to lastEvictTime
inCoolingTimeIgnoresCoolTime(t, last, coolTime) == t < last

\* the cooldown check of memoryEvict
inCoolingTime(t, last, coolTime) == t < last + coolTime

\* one tick of the memory evictor, up to the call of evictPodsIfNotEvicted
memoryEvict(obs) ==
    /\ pc["mem"] = "idle"
    /\ IF inCoolingTime(now, lastEvictTime, config.MemoryEvictCoolTimeSeconds)
       THEN /\ obs = NoObs
            /\ tick' = [NoTick EXCEPT !.exit = "cooldown"]
            /\ UNCHANGED <<pc, evictPods, idx, attempts>>
       ELSE /\ memoryEvictExit(obs) # "more"
            /\ memoryEvictBody(obs)
    /\ UNCHANGED <<run, emitted, now, config, lastEvictTime, podsEvicted, apiLog>>

\* mutant: a wave that evicted nothing resets lastEvictTime to the zero time
stampLastEvictTimeOnEviction ==
    /\ pc["mem"] = "stamp"
    /\ lastEvictTime' = IF evictPods["mem"] = <<>> THEN 0 ELSE now
    /\ pc' = [pc EXCEPT !["mem"] = "idle"]
    /\ evictPods' = [evictPods EXCEPT !["mem"] = <<>>]
    /\ attempts' = [attempts EXCEPT !["mem"] = <<>>]
    /\ idx' = [idx EXCEPT !["mem"] = 1]
    /\ UNCHANGED <<run, emitted, now, config, podsEvicted, apiLog, tick>>

\* mutant: lastEvictTime is written before evictPodsIfNotEvicted is called
stampLastEvictTimeBeforeEvict ==
    \/ /\ pc["mem"] = "get"
       /\ attempts["mem"] = <<>>
       /\ lastEvictTime < now
       /\ lastEvictTime' = now
       /\ UNCHANGED <<run, emitted, now, config, podsEvicted, apiLog, tick, pc,
                      evictPods, attempts, idx>>
    \/ /\ pc["mem"] = "stamp"
       /\ lastEvictTime' = now
       /\ pc' = [pc EXCEPT !["mem"] = "idle"]
       /\ evictPods' = [evictPods EXCEPT !["mem"] = <<>>]
       /\ attempts' = [attempts EXCEPT !["mem"] = <<>>]
       /\ idx' = [idx EXCEPT !["mem"] = 1]
       /\ UNCHANGED <<run, emitted, now, config, podsEvicted, apiLog, tick>>

\* mutant: lastEvictTime is written only when the wave evicted a pod
stampLastEvictTimeIfEvicted ==
    /\ pc["mem"] = "stamp"
    /\ lastEvictTime' =
          IF \E i \in 1..Len(attempts["mem"]) : attempts["mem"][i].res = "inserted"
          THEN now ELSE lastEvictTime
    /\ pc' = [pc EXCEPT !["mem"] = "idle"]
    /\ evictPods' = [evictPods EXCEPT !["mem"] = <<>>]
    /\ attempts' = [attempts EXCEPT !["mem"] = <<>>]
    /\ idx' = [idx EXCEPT !["mem"] = 1]
    /\ UNCHANGED <<run, emitted, now, config, podsEvicted, apiLog, tick>>

\* m.lastEvictTime = time.Now() at the end of killAndEvictBEPods
stampLastEvictTime ==
    /\ pc["mem"] = "stamp"
    /\ lastEvictTime' = now
    /\ pc' = [pc EXCEPT !["mem"] = "idle"]
    /\ evictPods' = [evictPods EXCEPT !["mem"] = <<>>]
    /\ attempts' = [attempts EXCEPT !["mem"] = <<>>]
    /\ idx' = [idx EXCEPT !["mem"] = 1]
    /\ UNCHANGED <<run, emitted, now, config, podsEvicted, apiLog, tick>>

----------------------------------------------------------------------------
(* resmanager.go: the eviction executor *)

\* position of caller r when its batch is over
afterBatch(r) == IF r = "mem" THEN "stamp" ELSE "done"

\* the loop of evictPodsIfNotEvicted moves to the next pod of the batch
nextPod(r) ==
    /\ idx' = [idx EXCEPT ![r] = idx[r] + 1]
    /\ pc' = [pc EXCEPT ![r] = IF idx[r] < Len(evictPods[r]) THEN "get"
                                ELSE afterBatch(r)]

\* mutant: the evicted set is not consulted
evictedLookupNever(uid) == FALSE

\* evictPodIfNotEvicted: the lookup in the evicted set
evictedLookup(uid) == cacheGet(podsEvicted, uid, now)

evictPodIfNotEvicted(r) ==
    /\ pc[r] = "get"
    /\ LET uid == evictPods[r][idx[r]] IN
       IF evictedLookup(uid)
       THEN /\ attempts' = [attempts EXCEPT ![r] =
                               Append(@, [uid |-> uid, res |-> "skip"])]
            /\ nextPod(r)
       ELSE /\ attempts' = [attempts EXCEPT ![r] =
                               Append(@, [uid |-> uid, res |-> "call"])]
            /\ pc' = [pc EXCEPT ![r] = "evictPod"]
            /\ UNCHANGED idx
    /\ UNCHANGED <<run, emitted, now, config, lastEvictTime, podsEvicted, evictPods, apiLog, tick>>

\* event reasons and the event type evictPod uses
evictPodSuccess == "evictPodSuccess"
evictPodFail == "evictPodFail"
EventTypeWarning == "Warning"

\* one thing evictPod makes visible outside the process; type is the event
\* type of an event and empty otherwise
Effect(kind, uid, info, type) ==
    [kind |-> kind, uid |-> uid, info |-> info, type |-> type]

\* mutant: the event says evictPodSuccess whatever the API answers
evictPodEffectsAlwaysSuccess(uid, ok) ==
    <<Effect("audit", uid, "EvictPodByNodeMemoryUsage", ""),
      Effect("api", uid, IF ok THEN "ok" ELSE "err", ""),
      Effect("event", uid, evictPodSuccess, EventTypeWarning)>>
    \o (IF ok THEN <<Effect("metric", uid, "pod_eviction_total", "")>> ELSE <<>>)

\* mutant: the audit record is written after the API call
evictPodEffectsAuditLast(uid, ok) ==
    <<Effect("api", uid, IF ok THEN "ok" ELSE "err", "")>>
    \o (IF ok
        THEN <<Effect("event", uid, evictPodSuccess, EventTypeWarning),
               Effect("metric", uid, "pod_eviction_total", "")>>
        ELSE <<Effect("event", uid, evictPodFail, EventTypeWarning)>>)
    \o <<Effect("audit", uid, "EvictPodByNodeMemoryUsage", "")>>

\* evictPod, in program order: the audit record, the cluster-API call, the
\* Warning event whose reason follows the call's answer and, on success, the
\* increment of pod_eviction_total
evictPodEffects(uid, ok) ==
    <<Effect("audit", uid, "EvictPodByNodeMemoryUsage", ""),
      Effect("api", uid, IF ok THEN "ok" ELSE "err", "")>>
    \o (IF ok
        THEN <<Effect("event", uid, evictPodSuccess, EventTypeWarning),
               Effect("metric", uid, "pod_eviction_total", "")>>
        ELSE <<Effect("event", uid, evictPodFail, EventTypeWarning)>>)

\* mutant: the UID is inserted whatever the API answers
evictPodInsertOnFail(r, ok) ==
    /\ pc[r] = "evictPod"
    /\ Len(apiLog) < MaxCalls
    /\ LET uid == evictPods[r][idx[r]] IN
       /\ apiLog' = Append(apiLog, [uid |-> uid, ok |-> ok, at |-> now])
       /\ emitted' = emitted \o evictPodEffects(uid, ok)
       /\ attempts' = [attempts EXCEPT ![r][idx[r]].res = IF ok THEN "ok" ELSE "fail"]
       /\ pc' = [pc EXCEPT ![r] = "set"]
       /\ UNCHANGED idx
    /\ UNCHANGED <<run, now, config, lastEvictTime, podsEvicted, evictPods, tick>>

\* mutant: a failed eviction ends the batch
evictPodAbortBatch(r, ok) ==
    /\ pc[r] = "evictPod"
    /\ Len(apiLog) < MaxCalls
    /\ LET uid == evictPods[r][idx[r]] IN
       /\ apiLog' = Append(apiLog, [uid |-> uid, ok |-> ok, at |-> now])
       /\ emitted' = emitted \o evictPodEffects(uid, ok)
       /\ attempts' = [attempts EXCEPT ![r][idx[r]].res = IF ok THEN "ok" ELSE "fail"]
       /\ pc' = [pc EXCEPT ![r] = IF ok THEN "set" ELSE afterBatch(r)]
       /\ UNCHANGED idx
    /\ UNCHANGED <<run, now, config, lastEvictTime, podsEvicted, evictPods, tick>>

\* evictPod: the cluster-API eviction call; ok is the API's answer
evictPod(r, ok) ==
    /\ pc[r] = "evictPod"
    /\ Len(apiLog) < MaxCalls
    /\ LET uid == evictPods[r][idx[r]] IN
       /\ apiLog' = Append(apiLog, [uid |-> uid, ok |-> ok, at |-> now])
       /\ emitted' = emitted \o evictPodEffects(uid, ok)
       /\ attempts' = [attempts EXCEPT ![r][idx[r]].res = IF ok THEN "ok" ELSE "fail"]
       /\ IF ok
          THEN /\ pc' = [pc EXCEPT ![r] = "set"]
               /\ UNCHANGED idx
          ELSE nextPod(r)
    /\ UNCHANGED <<run, now, config, lastEvictTime, podsEvicted, evictPods, tick>>

\* mutant: the UID is not recorded after a successful eviction
setEvictedDropped(r) ==
    /\ pc[r] = "set"
    /\ attempts' = [attempts EXCEPT ![r][idx[r]].res = "inserted"]
    /\ nextPod(r)
    /\ UNCHANGED <<run, emitted, now, config, lastEvictTime, podsEvicted, evictPods, apiLog, tick>>

\* evictPodIfNotEvicted after a successful evictPod: podsEvicted.SetDefault
setEvicted(r) ==
    /\ pc[r] = "set"
    /\ LET uid == evictPods[r][idx[r]] IN
       /\ podsEvicted' = cacheSetDefault(podsEvicted, uid, now)
       /\ attempts' = [attempts EXCEPT ![r][idx[r]].res = "inserted"]
    /\ nextPod(r)
    /\ UNCHANGED <<run, emitted, now, config, lastEvictTime, evictPods, apiLog, tick>>

\* a tick of the CPU evictor that reaches evictPodsIfNotEvicted
CPUBatches == {<<PodA.uid>>, <<PodB.uid, PodA.uid>>}

cpuEvict(uids) ==
    /\ pc["cpu"] = "idle"
    /\ startBatch("cpu", uids, "done")
    /\ UNCHANGED <<run, emitted, now, config, lastEvictTime, podsEvicted, apiLog, tick>>

\* two calls of evictPodIfNotEvicted for the same pod, back to back
evictTwice(uid) ==
    /\ pc["twice"] = "idle"
    /\ startBatch("twice", <<uid, uid>>, "done")
    /\ UNCHANGED <<run, emitted, now, config, lastEvictTime, podsEvicted, apiLog, tick>>

\* evictPodsIfNotEvicted returns to a caller other than the memory evictor
batchReturn(r) ==
    /\ r # "mem"
    /\ pc[r] = "done"
    /\ pc' = [pc EXCEPT ![r] = "idle"]
    /\ evictPods' = [evictPods EXCEPT ![r] = <<>>]
    /\ attempts' = [attempts EXCEPT ![r] = <<>>]
    /\ idx' = [idx EXCEPT ![r] = 1]
    /\ UNCHANGED <<run, emitted, now, config, lastEvictTime, podsEvicted, apiLog, tick>>

\* the sweeper of the evicted set drops the expired entries
sweep ==
    /\ \E u \in UIDs : podsEvicted[u] # 0 /\ podsEvicted[u] <= now
    /\ podsEvicted' = [u \in UIDs |->
                          IF podsEvicted[u] <= now THEN 0 ELSE podsEvicted[u]]
    /\ UNCHANGED <<run, emitted, now, config, lastEvictTime, pc, evictPods, idx, attempts,
                   apiLog, tick>>

\* the clock advances
clockTick ==
    /\ now < MaxTime
    /\ now' = now + 1
    /\ UNCHANGED <<config, lastEvictTime, podsEvicted, pc, evictPods, idx,
                   attempts, apiLog, emitted, tick, run>>

----------------------------------------------------------------------------
(* resmanager.go: Run *)

\* the eviction state is left alone by Run
runOnly ==
    UNCHANGED <<now, config, lastEvictTime, podsEvicted, pc, evictPods, idx,
                attempts, apiLog, emitted, tick>>

\* mutant: the interval check lets 0 through
managerDisabledBelowZero(collectResUsedIntervalSeconds) ==
    collectResUsedIntervalSeconds < 0

\* the check r.collectResUsedIntervalSeconds < 1
managerDisabled(collectResUsedIntervalSeconds) ==
    collectResUsedIntervalSeconds < 1

\* Run is entered: a disabled manager returns nil at once
runEntry ==
    /\ run.pc = "entry"
    /\ run' = IF managerDisabled(run.collectResUsedIntervalSeconds)
              THEN [run EXCEPT !.pc = "returned", !.result = "nil"]
              ELSE [run EXCEPT !.pc = "sweeper"]
    /\ runOnly

\* r.podsEvicted.Run(stopCh)
runSweeper ==
    /\ run.pc = "sweeper"
    /\ run' = [run EXCEPT !.sweeper = TRUE, !.pc = "greyCtrl"]
    /\ runOnly

\* go configextensions.RunQOSGreyCtrlPlugins(r.kubeClient, stopCh)
runGreyCtrl ==
    /\ run.pc = "greyCtrl"
    /\ run' = [run EXCEPT !.greyCtrl = TRUE, !.pc = "wait"]
    /\ runOnly

\* mutant: the result of the wait is ignored
waitReturnIgnored(synced) == "spawn"

\* where Run goes when cache.WaitForCacheSync returns synced
waitReturn(synced) == IF synced THEN "spawn" ELSE "returned"

\* cache.WaitForCacheSync(stopCh, HasSynced) returns: true only when the
\* informer has synced, false only when stopCh is closed; it does not return
\* while neither holds
runWaitForCacheSync(synced) ==
    /\ run.pc = "wait"
    /\ IF synced THEN run.hasSynced ELSE run.stopCh
    /\ run' = [run EXCEPT !.pc = waitReturn(synced),
                          !.result = IF waitReturn(synced) = "returned"
                                     THEN "syncTimeout" ELSE @]
    /\ runOnly

\* the next reconciler is constructed and handed to RunFeature or
\* RunFeatureWithInit, which starts it when started holds (its feature gate
\* is on and its init succeeded)
runSpawn(started) ==
    /\ run.pc = "spawn"
    /\ LET n == run.constructed + 1 IN
       run' = [run EXCEPT !.constructed = n,
                          !.spawned = IF started THEN @ \cup {Reconcilers[n]} ELSE @,
                          !.pc = IF n = Len(Reconcilers) THEN "plugins" ELSE "spawn"]
    /\ runOnly

\* plugins.SetupPlugins and utilruntime.Must(plugins.StartPlugins(...)): an
\* error of StartPlugins panics
runStartPlugins(err) ==
    /\ run.pc = "plugins"
    /\ run' = IF err THEN [run EXCEPT !.pc = "panicked", !.result = "panic"]
              ELSE [run EXCEPT !.plugins = TRUE, !.pc = "blocked"]
    /\ runOnly

\* <-stopCh, then return nil
runStopped ==
    /\ run.pc = "blocked"
    /\ run.stopCh
    /\ run' = [run EXCEPT !.pc = "returned", !.result = "nil"]
    /\ runOnly

\* the owner of stopCh closes it
stopFires ==
    /\ ~run.stopCh
    /\ run' = [run EXCEPT !.stopCh = TRUE]
    /\ runOnly

\* the states informer finishes its initial sync
informerSyncs ==
    /\ ~run.hasSynced
    /\ run' = [run EXCEPT !.hasSynced = TRUE]
    /\ runOnly

----------------------------------------------------------------------------
(* Specifications *)

\* mutant: lastEvictTime is left at the zero time, long before construction
InitLastEvictTimeUnset ==
    /\ now = 0
    /\ config \in Configs
    /\ lastEvictTime = -MaxTime
    /\ podsEvicted = [u \in UIDs |-> 0]
    /\ pc = [r \in Callers |-> "idle"]
    /\ evictPods = [r \in Callers |-> <<>>]
    /\ idx = [r \in Callers |-> 1]
    /\ attempts = [r \in Callers |-> <<>>]
    /\ apiLog = <<>>
    /\ emitted = <<>>
    /\ tick = NoTick
    /\ run = Running

\* the state after NewResManager and NewMemoryEvictor, which sets
\* lastEvictTime to time.Now(); the clock starts at the construction
Init ==
    /\ now = 0
    /\ config \in Configs
    /\ lastEvictTime = 0
    /\ podsEvicted = [u \in UIDs |-> 0]
    /\ pc = [r \in Callers |-> "idle"]
    /\ evictPods = [r \in Callers |-> <<>>]
    /\ idx = [r \in Callers |-> 1]
    /\ attempts = [r \in Callers |-> <<>>]
    /\ apiLog = <<>>
    /\ emitted = <<>>
    /\ tick = NoTick
    /\ run = Running

memoryEvictTick == \E obs \in Observations \cup {NoObs} : memoryEvict(obs)
cpuEvictTick == \E uids \in CPUBatches : cpuEvict(uids)
evictTwiceCall == \E uid \in {PodA.uid, PodB.uid} : evictTwice(uid)
lookupStep == \E r \in Callers : evictPodIfNotEvicted(r)
evictPodStep == \E r \in Callers, ok \in BOOLEAN : evictPod(r, ok)
setEvictedStep == \E r \in Callers : setEvicted(r)

returnStep == \E r \in Callers : batchReturn(r)

\* the memory evictor with its collaborators
Next ==
    \/ memoryEvictTick
    \/ stampLastEvictTime
    \/ lookupStep
    \/ evictPodStep
    \/ setEvictedStep
    \/ sweep
    \/ clockTick

Spec == Init /\ [][Next]_vars

\* what the memory evictor reads on a node under lasting memory pressure
PressureObservations ==
    {o \in Observations :
        /\ memoryEvictExit(o) = "wave"
        /\ o.nodeSLO[1].strategy.thresholdPercent = Ptr(50)
        /\ o.podMetrics[1][PodA.uid] # 0
        /\ o.allPods[1] = <<PodA, PodB, PodC>>}

memoryEvictPressureTick ==
    \E obs \in PressureObservations \cup {NoObs} : memoryEvict(obs)

\* the memory evictor and the CPU evictor run concurrently and share the
\* evicted set
NextShared ==
    \/ memoryEvictPressureTick
    \/ stampLastEvictTime
    \/ cpuEvictTick
    \/ lookupStep
    \/ evictPodStep
    \/ setEvictedStep
    \/ returnStep
    \/ sweep
    \/ clockTick

SpecShared == Init /\ [][NextShared]_vars

\* one caller evicts a pod twice back to back
NextTwice ==
    \/ evictTwiceCall
    \/ lookupStep
    \/ evictPodStep
    \/ setEvictedStep
    \/ returnStep
    \/ sweep
    \/ clockTick

SpecTwice == Init /\ [][NextTwice]_vars

\* a manager is constructed and Run is called on it
InitRun ==
    /\ now = 0
    /\ config \in Configs
    /\ lastEvictTime = 0
    /\ podsEvicted = [u \in UIDs |-> 0]
    /\ pc = [r \in Callers |-> "idle"]
    /\ evictPods = [r \in Callers |-> <<>>]
    /\ idx = [r \in Callers |-> 1]
    /\ attempts = [r \in Callers |-> <<>>]
    /\ apiLog = <<>>
    /\ emitted = <<>>
    /\ tick = NoTick
    /\ run \in {NewRun(i) : i \in Intervals}

waitStep == \E synced \in BOOLEAN : runWaitForCacheSync(synced)
spawnStep == \E started \in BOOLEAN : runSpawn(started)
startPluginsStep == \E err \in BOOLEAN : runStartPlugins(err)

\* the steps of Run itself
runStep ==
    \/ runEntry
    \/ runSweeper
    \/ runGreyCtrl
    \/ waitStep
    \/ spawnStep
    \/ startPluginsStep
    \/ runStopped

NextRun ==
    \/ runEntry
    \/ runSweeper
    \/ runGreyCtrl
    \/ waitStep
    \/ spawnStep
    \/ startPluginsStep
    \/ runStopped
    \/ stopFires
    \/ informerSyncs

SpecRun == InitRun /\ [][NextRun]_vars

\* Run is a goroutine that is scheduled whenever it can take a step
SpecRunLive == SpecRun /\ WF_vars(runStep)

\* one tick of the memory evictor on a node under memory pressure
memoryEvictWaveTick == \E obs \in WaveObservations : memoryEvict(obs)

NextWave ==
    \/ memoryEvictWaveTick
    \/ clockTick

SpecWave == Init /\ [][NextWave]_vars

\* one tick of the memory evictor that kills a pod with any containers
memoryEvictKillTick == \E obs \in KillObservations : memoryEvict(obs)

NextKill ==
    \/ memoryEvictKillTick
    \/ clockTick

SpecKill == Init /\ [][NextKill]_vars

----------------------------------------------------------------------------
(* Properties *)

\* the API calls made for the pods of caller r's current batch
CallsOf(r) ==
    Cardinality({i \in 1..Len(attempts[r]) : attempts[r][i].res # "skip"})
SuccessesOf(r) ==
    Cardinality({i \in 1..Len(attempts[r]) : attempts[r][i].res \in {"ok", "inserted"}})

\* C1: for every pod UID, any two successful cluster-API eviction calls are
\* at least one evicted-set TTL apart, whatever the interleaving of the
\* reconcilers that share the evicted set.
C1_OneSuccessPerTTLWindow ==
    \A i, j \in 1..Len(apiLog) :
        (i < j /\ apiLog[i].uid = apiLog[j].uid /\ apiLog[i].ok /\ apiLog[j].ok)
            => apiLog[j].at - apiLog[i].at >= DefaultExpiration

\* the two back-to-back calls have returned, and less than one TTL has passed
\* since the first API call they made, so that no entry they inserted expired
TwiceDoneNoExpiry ==
    /\ pc["twice"] = "done"
    /\ CallsOf("twice") >= 1
    /\ now < apiLog[Len(apiLog) - CallsOf("twice") + 1].at + DefaultExpiration

\* C2 (as claimed): two back-to-back calls of evictPodIfNotEvicted for the
\* same pod issue at most one API call in total, whatever the API answers.
C2_AtMostOneCall ==
    TwiceDoneNoExpiry => CallsOf("twice") <= 1

\* C2 (amended): two back-to-back calls for the same pod issue at most one
\* successful API call; when the first API call succeeds the second call
\* issues none, and when it fails the second call issues another one.
C2_AtMostOneCallAfterSuccess ==
    TwiceDoneNoExpiry =>
        /\ SuccessesOf("twice") <= 1
        /\ attempts["twice"][1].res = "inserted" => attempts["twice"][2].res = "skip"
        /\ attempts["twice"][1].res = "fail" => attempts["twice"][2].res # "skip"

C2_Witness ==
    /\ TwiceDoneNoExpiry
    /\ attempts["twice"][1].res = "inserted"
    /\ attempts["twice"][2].res = "skip"

\* the last successful API call for uid, 0 when there is none
LastSuccess(log, uid) ==
    LET S == {k \in 1..Len(log) : log[k].uid = uid /\ log[k].ok}
    IN IF S = {} THEN 0 ELSE CHOOSE k \in S : \A m \in S : m <= k

\* C3: a UID is in the evicted set only if an API call for it returned
\* success before; a successful call inserts it with the default TTL, a
\* failed call inserts nothing.
C3_EvictedOnlyAfterSuccess ==
    /\ \A u \in UIDs :
          podsEvicted[u] # 0 =>
              \E k \in 1..Len(apiLog) :
                  /\ apiLog[k].uid = u /\ apiLog[k].ok
                  /\ podsEvicted[u] >= apiLog[k].at + DefaultExpiration
                  /\ podsEvicted[u] <= now + DefaultExpiration
    /\ \A i \in 1..Len(attempts["mem"]) :
          LET u == attempts["mem"][i].uid
              k == LastSuccess(apiLog, u)
          IN /\ attempts["mem"][i].res = "inserted" =>
                    /\ k # 0
                    /\ now < apiLog[k].at + DefaultExpiration =>
                           cacheGet(podsEvicted, u, now)
             /\ attempts["mem"][i].res = "fail" => ~cacheGet(podsEvicted, u, now)

C3_Witness ==
    /\ \E i \in 1..Len(attempts["mem"]) :
          /\ attempts["mem"][i].res = "inserted"
          /\ podsEvicted[attempts["mem"][i].uid] # 0
    /\ \E i \in 1..Len(attempts["mem"]) :
          /\ attempts["mem"][i].res = "fail"
          /\ podsEvicted[attempts["mem"][i].uid] = 0

\* C4: evictPodsIfNotEvicted handles the pods of the batch in list order and,
\* when it returns, has handled every one of them: a failed eviction does not
\* keep a later pod from being attempted and, on success, inserted.
C4_BatchAttemptsEveryPod ==
    \A r \in Callers :
        /\ Len(attempts[r]) <= Len(evictPods[r])
        /\ \A i \in 1..Len(attempts[r]) : attempts[r][i].uid = evictPods[r][i]
        /\ pc[r] \in {"stamp", "done"} =>
              /\ Len(attempts[r]) = Len(evictPods[r])
              /\ \A i \in 1..Len(attempts[r]) :
                    attempts[r][i].res \in {"skip", "fail", "inserted"}

C4_Witness ==
    /\ pc["mem"] = "stamp"
    /\ \E i, j \in 1..Len(attempts["mem"]) :
          /\ i < j
          /\ attempts["mem"][i].res = "fail"
          /\ attempts["mem"][j].res = "inserted"

\* the API calls made before the current wave of the memory evictor
PriorLog == SubSeq(apiLog, 1, Len(apiLog) - CallsOf("mem"))

\* the last API call for uid in log, 0 when there is none
LastCall(log, uid) ==
    LET S == {k \in 1..Len(log) : log[k].uid = uid}
    IN IF S = {} THEN 0 ELSE CHOOSE k \in S : \A m \in S : m <= k

\* victim i of the finished wave had its last earlier API call fail
RetriedVictim(i) ==
    LET k == LastCall(PriorLog, attempts["mem"][i].uid)
    IN k # 0 /\ ~PriorLog[k].ok

\* victim i of the finished wave had its last earlier API call succeed, less
\* than one TTL ago
LiveVictim(i) ==
    LET k == LastCall(PriorLog, attempts["mem"][i].uid)
    IN k # 0 /\ PriorLog[k].ok /\ now < PriorLog[k].at + DefaultExpiration

\* C5: in a wave of the memory evictor, a selected victim whose last API call
\* failed gets a new API call, and a victim whose last API call succeeded
\* gets none while its evicted-set entry is live.
C5_RetryAfterFailure ==
    pc["mem"] = "stamp" =>
        \A i \in 1..Len(attempts["mem"]) :
            /\ RetriedVictim(i) => attempts["mem"][i].res \in {"fail", "inserted"}
            /\ LiveVictim(i) => attempts["mem"][i].res = "skip"

C5_Witness ==
    /\ pc["mem"] = "stamp"
    /\ \E i \in 1..Len(attempts["mem"]) :
          RetriedVictim(i) /\ attempts["mem"][i].res \in {"fail", "inserted"}
    /\ \E i \in 1..Len(attempts["mem"]) :
          LiveVictim(i) /\ attempts["mem"][i].res = "skip"

\* the NodeSLO read by the tick does not enable the feature
FeatureOff(obs) ==
    /\ obs.nodeSLO # <<>>
    /\ LET nodeSLO == obs.nodeSLO[1] IN
       \/ nodeSLO.isNil
       \/ nodeSLO.specEmpty
       \/ ~nodeSLO.strategy.set
       \/ ~nodeSLO.strategy.enable.set
       \/ ~nodeSLO.strategy.enable.val

\* the step is a tick of the memory evictor that selects no victim, stops no
\* container, starts no eviction and changes no state
TickDoesNothing ==
    /\ tick'.obs.allPods = <<>>
    /\ tick'.killCalls = <<>>
    /\ tick'.stopCalls = <<>>
    /\ pc'["mem"] = "idle"
    /\ UNCHANGED <<podsEvicted, lastEvictTime, apiLog, emitted, evictPods, attempts>>

\* C6: a memoryEvict tick that reads a NodeSLO that is nil, has an empty
\* spec, no ResourceUsedThresholdWithBE, no Enable flag or Enable = false
\* selects no victim, stops no container, calls no eviction API and changes
\* neither the evicted set nor lastEvictTime.
C6_DisabledTickDoesNothing ==
    [][(memoryEvict(tick'.obs) /\ FeatureOff(tick'.obs)) => TickDoesNothing]_vars

C6_Witness ==
    /\ tick.exit = "disabled"
    /\ FeatureOff(tick.obs)
    /\ lastEvictTime > 0
    /\ \E u \in UIDs : podsEvicted[u] # 0

\* the memory evictor is within its cooldown
Cooling == now < lastEvictTime + config.MemoryEvictCoolTimeSeconds

\* C7: a tick that starts within MemoryEvictCoolTimeSeconds of lastEvictTime
\* does nothing, and every step that starts a wave or calls the eviction API
\* is taken at least MemoryEvictCoolTimeSeconds after lastEvictTime.
C7_CooldownBetweenWaves ==
    [][/\ (memoryEvict(tick'.obs) /\ Cooling) =>
              (TickDoesNothing /\ tick'.exit = "cooldown")
       /\ (pc'["mem"] \notin {"idle", pc["mem"]} \/ apiLog' # apiLog) => ~Cooling]_vars

C7_Witness ==
    /\ tick.exit = "cooldown"
    /\ Cooling
    /\ lastEvictTime > 0
    /\ apiLog # <<>>

\* the tick read an enabling NodeSLO and one of the guards of memoryEvict
\* stops it
GuardStops(obs) ==
    /\ obs.nodeSLO # <<>>
    /\ ~FeatureOff(obs)
    /\ LET cfg == obs.nodeSLO[1].strategy
           T == cfg.thresholdPercent
           L == IF cfg.lowerPercent.set THEN cfg.lowerPercent.val
                ELSE T.val - memoryReleaseBufferPercent
       IN \/ ~T.set
          \/ T.val < 0
          \/ L >= T.val
          \/ obs.node # <<>> /\ (obs.node[1].isNil \/ obs.node[1].memoryCapacity <= 0)
          \/ /\ obs.nodeMetric # <<>>
             /\ \/ obs.nodeMetric[1].err # ""
                \/ (obs.nodeMetric[1].val * 100) \div obs.node[1].memoryCapacity < T.val

\* C8: a memoryEvict tick stopped by a guard (threshold nil or negative,
\* lower >= threshold, node nil, capacity <= 0, node metric error, usage
\* below the threshold) kills no container, calls no eviction API and leaves
\* the evicted set and lastEvictTime unchanged.
C8_GuardedTickDoesNothing ==
    [][(memoryEvict(tick'.obs) /\ GuardStops(tick'.obs)) => TickDoesNothing]_vars

C8_Witness ==
    /\ tick.exit = "belowThreshold"
    /\ GuardStops(tick.obs)
    /\ lastEvictTime > 0
    /\ \E u \in UIDs : podsEvicted[u] # 0

\* C9: the lower bound of a tick is MemoryEvictThresholdPercent - 2 when
\* MemoryEvictLowerPercent is unset and the configured value when it is set,
\* and the tick goes on only if that bound is strictly below the threshold.
C9_LowerPercent ==
    tick.exit \in LowerPercentExits =>
        LET cfg == tick.obs.nodeSLO[1].strategy IN
        /\ ~cfg.lowerPercent.set => tick.lowerPercent = cfg.thresholdPercent.val - 2
        /\ cfg.lowerPercent.set => tick.lowerPercent = cfg.lowerPercent.val
        /\ (tick.exit # "lowerPercent") <=> (tick.lowerPercent < cfg.thresholdPercent.val)

C9_Witness ==
    /\ tick.exit = "wave"
    /\ tick.obs.nodeSLO[1].strategy.thresholdPercent = Ptr(70)
    /\ ~tick.obs.nodeSLO[1].strategy.lowerPercent.set
    /\ tick.lowerPercent = 68

\* the pod with this UID has QoS class BE
IsBE(uid) == PodByUID(uid).qos = QoSBE

\* C10: every pod the memory evictor hands to killContainers or to the
\* eviction API has QoS class BE, and a tick under pressure on a node without
\* BE pod kills and evicts nothing.
C10_OnlyBEPods ==
    /\ \A i \in 1..Len(tick.killCalls) : IsBE(tick.killCalls[i])
    /\ \A i \in 1..Len(tick.stopCalls) : IsBE(tick.stopCalls[i][1])
    /\ \A i \in 1..Len(evictPods["mem"]) : IsBE(evictPods["mem"][i])
    /\ \A i \in 1..Len(apiLog) : IsBE(apiLog[i].uid)
    /\ pc["mem"] # "idle" => evictPods["mem"] = tick.killCalls
    /\ (tick.exit = "wave"
        /\ \A i \in 1..Len(tick.obs.allPods[1]) : tick.obs.allPods[1][i].qos # QoSBE)
          => (tick.killCalls = <<>> /\ tick.stopCalls = <<>> /\ evictPods["mem"] = <<>>)

C10_Witness ==
    /\ tick.exit = "wave"
    /\ \E i \in 1..Len(tick.obs.allPods[1]) : tick.obs.allPods[1][i].qos # QoSBE
    /\ tick.killCalls # <<>>
    /\ pc["mem"] = "stamp"
    /\ CallsOf("mem") = Len(tick.killCalls)

\* the positions in emitted of the effects of one kind
At(kind) == {p \in 1..Len(emitted) : emitted[p].kind = kind}

\* the effects of the given kind that follow the API call at position p and
\* precede the next API call
FollowUp(p, kind) ==
    {q \in At(kind) : q > p /\ \A m \in At("api") : ~(p < m /\ m < q)}

\* C11: every cluster-API eviction call is followed by exactly one Warning
\* event on the pod, with reason evictPodSuccess if and only if the call
\* returned no error and evictPodFail otherwise; pod_eviction_total is
\* incremented only on success; audit records and events are as many as the
\* API calls, so that a pod skipped as already evicted emits neither.
C11_OneEventPerCall ==
    /\ \A p \in At("api") :
          /\ Cardinality(FollowUp(p, "event")) = 1
          /\ \A q \in FollowUp(p, "event") :
                /\ emitted[q].uid = emitted[p].uid
                /\ emitted[q].type = EventTypeWarning
                /\ emitted[q].info = evictPodSuccess <=> emitted[p].info = "ok"
                /\ emitted[q].info = evictPodFail <=> emitted[p].info # "ok"
          /\ Cardinality(FollowUp(p, "metric")) = IF emitted[p].info = "ok" THEN 1 ELSE 0
    /\ Cardinality(At("api")) = Len(apiLog)
    /\ Cardinality(At("event")) = Len(apiLog)
    /\ Cardinality(At("audit")) = Len(apiLog)
    /\ Cardinality(At("metric")) = Cardinality({k \in 1..Len(apiLog) : apiLog[k].ok})

C11_Witness ==
    /\ \E p \in At("api") : emitted[p].info = "ok"
    /\ \E p \in At("api") : emitted[p].info = "err"
    /\ pc["mem"] = "stamp"
    /\ \E i \in 1..Len(attempts["mem"]) : attempts["mem"][i].res = "skip"

\* the position in emitted of the j-th effect of the given kind
Nth(kind, j) ==
    CHOOSE p \in At(kind) : Cardinality({q \in At(kind) : q <= p}) = j

\* C12 (as claimed): the audit record and the event of every eviction attempt
\* are emitted before the attempt's cluster-API call, never after it.
C12_AuditAndEventBeforeCall ==
    \A j \in 1..Cardinality(At("api")) :
        /\ Nth("audit", j) < Nth("api", j)
        /\ Nth("event", j) < Nth("api", j)

\* C12 (amended): the audit record of every eviction attempt is emitted
\* before the attempt's cluster-API call, and its event after the call has
\* returned and before the audit record of the next attempt.
C12_AuditBeforeCallEventAfter ==
    \A j \in 1..Cardinality(At("api")) :
        /\ Nth("audit", j) < Nth("api", j)
        /\ Nth("api", j) < Nth("event", j)
        /\ j < Cardinality(At("api")) => Nth("event", j) < Nth("audit", j + 1)

C12_Witness ==
    /\ Cardinality(At("api")) >= 2
    /\ \E p \in At("event") : emitted[p].info = evictPodFail
    /\ \E p \in At("event") : emitted[p].info = evictPodSuccess

\* C13: lastEvictTime never decreases: no step sets it to a value earlier
\* than its previous value, and it is never later than the clock.
C13_LastEvictTimeMonotonic ==
    [][lastEvictTime' >= lastEvictTime /\ lastEvictTime' <= now']_vars

C13_Witness ==
    /\ lastEvictTime >= 2
    /\ pc["mem"] = "idle"
    /\ tick.exit = "wave"
    /\ \E k \in 1..Len(apiLog) : apiLog[k].at < lastEvictTime

\* C14: a manager constructed with collectResUsedIntervalSeconds < 1 returns
\* nil from Run at its first step and starts nothing: not the sweeper of the
\* evicted set, no plugin, no wait for the informer's sync, no reconciler.
C14_DisabledManagerStartsNothing ==
    run.collectResUsedIntervalSeconds < 1 =>
        /\ run.pc \in {"entry", "returned"}
        /\ run.pc = "returned" => run.result = "nil"
        /\ ~run.sweeper /\ ~run.greyCtrl /\ ~run.plugins
        /\ run.constructed = 0 /\ run.spawned = {}

C14_Witness ==
    /\ run.collectResUsedIntervalSeconds = 0
    /\ run.pc = "returned"
    /\ run.result = "nil"
    /\ ~run.stopCh /\ ~run.hasSynced

\* what holds of Run in every state
RunOrder ==
    /\ (run.constructed > 0 \/ run.spawned # {}) => run.hasSynced
    /\ run.result = "syncTimeout" =>
          /\ run.pc = "returned" /\ run.stopCh
          /\ run.constructed = 0 /\ run.spawned = {}
    /\ (run.collectResUsedIntervalSeconds >= 1 /\ run.result = "nil") =>
          /\ run.pc = "returned" /\ run.stopCh /\ run.hasSynced
          /\ run.constructed = Len(Reconcilers)

C16_SyncTimeoutWithoutStop ==
    (run.collectResUsedIntervalSeconds >= 1 /\ [](~run.hasSynced /\ ~run.stopCh))
        => <>(run.pc = "returned" /\ run.result = "syncTimeout")

\* the scheduling priorities of the two victims are both set and differ
ByPriority(a, b) ==
    a.pod.priority.set /\ b.pod.priority.set /\ a.pod.priority.val # b.pod.priority.val

\* C17: in the victim order of a wave, of two BE pods that both have a
\* scheduling priority set and whose priorities differ, the one with the
\* lower priority comes first, whatever the other pods of the node are.
C17_LowerPriorityFirst ==
    tick.exit = "wave" =>
        \A i, j \in 1..Len(tick.bePodInfos) :
            LET a == tick.bePodInfos[i]
                b == tick.bePodInfos[j]
            IN (ByPriority(a, b) /\ a.pod.priority.val < b.pod.priority.val) => i < j

\* C18: in the victim order of a wave, of two BE pods not ordered by priority
\* the one with the larger sample comes first when both samples are non-zero,
\* the one with a sample before the one without, and the one with the
\* greater name first when both have no sample.
C18_MemUsedThenName ==
    tick.exit = "wave" =>
        \A i, j \in 1..Len(tick.bePodInfos) :
            LET a == tick.bePodInfos[i]
                b == tick.bePodInfos[j]
            IN ~ByPriority(a, b) =>
                /\ (a.memUsed # 0 /\ b.memUsed # 0 /\ a.memUsed > b.memUsed) => i < j
                /\ (a.memUsed # 0 /\ b.memUsed = 0) => i < j
                /\ (a.memUsed = 0 /\ b.memUsed = 0 /\ a.pod.name > b.pod.name) => i < j

\* the summed samples of the first k victims
RECURSIVE SumMemUsed(_, _)
SumMemUsed(infos, k) ==
    IF k = 0 THEN 0 ELSE SumMemUsed(infos, k - 1) + infos[k].memUsed

\* the length of the shortest prefix of the victims whose summed samples
\* reach the budget, the whole list when none does
ShortestPrefix(infos, need) ==
    LET K == {k \in 0..Len(infos) : SumMemUsed(infos, k) >= need}
    IN IF K = {} THEN Len(infos) ELSE CHOOSE k \in K : \A m \in K : k <= m

\* C19: the pods a wave kills are the shortest prefix of the sorted victims
\* whose summed memUsed reaches memoryNeedRelease, the whole list when the
\* total is smaller; containers are stopped in those pods only, and the
\* batch handed to evictPodsIfNotEvicted is the killed list in the same order.
C19_DrainShortestPrefix ==
    tick.exit = "wave" =>
        LET n == ShortestPrefix(tick.bePodInfos, tick.memoryNeedRelease) IN
        /\ tick.killCalls = [i \in 1..n |-> tick.bePodInfos[i].pod.uid]
        /\ \A c \in 1..Len(tick.stopCalls) :
              \E i \in 1..n : tick.stopCalls[c][1] = tick.bePodInfos[i].pod.uid
        /\ pc["mem"] # "idle" => evictPods["mem"] = tick.killCalls

C19_Witness ==
    /\ tick.exit = "wave"
    /\ Len(tick.killCalls) = 2
    /\ Len(tick.bePodInfos) = 3
    /\ tick.bePodInfos[1].memUsed + tick.bePodInfos[2].memUsed = tick.memoryNeedRelease
    /\ tick.bePodInfos[3].memUsed # 0
    /\ evictPods["mem"] = tick.killCalls

\* C20: a tick that reads the node's usage computes
\* usagePct = floor(used * 100 / capacity), runs the wave if and only if
\* usagePct >= T, and then gives it the budget
\* floor(capacity * (usagePct - L) / 100).
C20_UsageAndBudget ==
    tick.exit \in {"belowThreshold", "wave"} =>
        LET capacity == tick.obs.node[1].memoryCapacity
            used == tick.obs.nodeMetric[1].val
            T == tick.obs.nodeSLO[1].strategy.thresholdPercent.val
            L == tick.lowerPercent
            usagePct == (used * 100) \div capacity
        IN /\ capacity > 0
           /\ tick.nodeMemoryUsage = usagePct
           /\ tick.exit = "wave" <=> usagePct >= T
           /\ tick.exit = "wave" =>
                 tick.memoryNeedRelease = (capacity * (usagePct - L)) \div 100

C20_Witness ==
    /\ tick.exit = "wave"
    /\ tick.obs.node[1].memoryCapacity = 100
    /\ tick.obs.nodeMetric[1].val = 80
    /\ tick.lowerPercent = 60
    /\ tick.memoryNeedRelease = 20

\* every pod of the batch of the memory evictor has been handled
BatchOver ==
    /\ Len(attempts["mem"]) = Len(evictPods["mem"])
    /\ \A i \in 1..Len(attempts["mem"]) :
          attempts["mem"][i].res \in {"skip", "fail", "inserted"}

\* the reads of a tick were made in the order of the code
ReadsInOrder(t) ==
    /\ t.exit = "cooldown" => t.obs = NoObs
    /\ (t.obs.podMetrics # <<>> \/ t.obs.node # <<>>) => t.obs.nodeSLO # <<>>
    /\ t.obs.nodeMetric # <<>> => (t.obs.podMetrics # <<>> /\ t.obs.node # <<>>)
    /\ t.obs.allPods # <<>> => t.obs.nodeMetric # <<>>
    /\ (t.bePodInfos # <<>> \/ t.killCalls # <<>> \/ t.stopCalls # <<>>) =>
          (t.obs.allPods # <<>> /\ t.exit = "wave")

\* C21: a tick checks the cooldown, reads the NodeSLO, queries the metrics,
\* selects the victims and stops their containers before the first eviction
\* API call of its wave, and lastEvictTime is written only after the last
\* eviction attempt of the wave has returned.
C21_TickOrder ==
    [][/\ ReadsInOrder(tick')
       /\ tick' # tick =>
              (pc["mem"] = "idle" /\ apiLog' = apiLog /\ lastEvictTime' = lastEvictTime)
       /\ apiLog' # apiLog =>
              (pc["mem"] = "evictPod" /\ tick' = tick /\ tick.exit = "wave"
               /\ lastEvictTime' = lastEvictTime)
       /\ lastEvictTime' # lastEvictTime =>
              (pc["mem"] = "stamp" /\ BatchOver /\ apiLog' = apiLog /\ tick' = tick)]_vars

C21_Witness ==
    /\ pc["mem"] = "idle"
    /\ tick.exit = "wave"
    /\ Len(tick.stopCalls) >= 2
    /\ Len(apiLog) >= 2
    /\ lastEvictTime = now
    /\ \A k \in 1..Len(apiLog) : apiLog[k].at <= lastEvictTime

\* the index of the first container whose status is missing or not Running,
\* one past the end when there is none
FirstAbort(containers) ==
    LET B == {k \in 1..Len(containers) :
                 ~containers[k].hasStatus \/ ~containers[k].running}
    IN IF B = {} THEN Len(containers) + 1 ELSE CHOOSE k \in B : \A m \in B : k <= m

\* the containers of a pod StopContainer must be called for, in order
ExpectedStops(containers) ==
    LET Stopped(k) == /\ k < FirstAbort(containers)
                      /\ containers[k].hasID /\ containers[k].runtimeKnown
    IN SelectSeq([k \in 1..Len(containers) |-> k], Stopped)

\* the containers of the pod with this UID StopContainer was called for
StopsOf(uid) ==
    LET Mine(c) == c[1] = uid
        calls == SelectSeq(tick.stopCalls, Mine)
    IN [k \in 1..Len(calls) |-> calls[k][2]]

\* C22: for every pod a wave kills, StopContainer is called, in the order of
\* the pod's containers, for exactly the containers with a container ID and
\* a known runtime that come before the first container whose status is
\* missing or not Running; an error of StopContainer changes nothing, and a
\* pod whose containers are not running gets no call.
C22_KillContainersWalk ==
    tick.exit = "wave" =>
        /\ \A i \in 1..Len(tick.killCalls) :
              StopsOf(tick.killCalls[i]) = ExpectedStops(tick.bePodInfos[i].pod.containers)
        /\ \A c \in 1..Len(tick.stopCalls) :
              \E i \in 1..Len(tick.killCalls) : tick.stopCalls[c][1] = tick.killCalls[i]

C22_Witness ==
    /\ tick.exit = "wave"
    /\ tick.killCalls = <<1>>
    /\ Len(tick.bePodInfos[1].pod.containers) = 3
    /\ tick.bePodInfos[1].pod.containers[1].stopErr
    /\ ~tick.bePodInfos[1].pod.containers[2].runtimeKnown
    /\ tick.bePodInfos[1].pod.containers[2].hasID
    /\ tick.stopCalls = <<(<<1, 1>>), (<<1, 3>>)>>

\* C23: the memory evictor is constructed at time 0 with lastEvictTime set to
\* that time, so that no wave (victim selection, container kill or eviction
\* API call) happens earlier than MemoryEvictCoolTimeSeconds after the
\* construction, whatever the ticks read.
C23_NoWaveBeforeFirstCooldown ==
    [][((tick' # tick /\ tick'.exit = "wave") \/ apiLog' # apiLog
        \/ tick'.stopCalls # tick.stopCalls) =>
            now >= config.MemoryEvictCoolTimeSeconds]_vars

C23_Witness ==
    /\ tick.exit = "wave"
    /\ tick.stopCalls # <<>>
    /\ lastEvictTime = 0
    /\ now = config.MemoryEvictCoolTimeSeconds
    /\ apiLog # <<>>

\* the step is a tick of the memory evictor that passes the pressure gate
WaveTick == memoryEvict(tick'.obs) /\ tick'.exit = "wave"

\* C24: a tick that passes the pressure gate starts a wave that ends only by
\* writing lastEvictTime = now, once, whatever the wave did: also with no BE
\* pod, no pod killed, every eviction failed or every victim already in the
\* evicted set; the next wave starts a full cooldown later at the earliest.
C24_WaveAlwaysStamps ==
    [][/\ WaveTick =>
              /\ pc'["mem"] \in {"get", "stamp"}
              /\ now >= lastEvictTime + config.MemoryEvictCoolTimeSeconds
       /\ (pc["mem"] # "idle" /\ pc'["mem"] = "idle") =>
              (pc["mem"] = "stamp" /\ lastEvictTime' = now)
       /\ lastEvictTime' # lastEvictTime =>
              (pc["mem"] = "stamp" /\ pc'["mem"] = "idle")]_vars

C24_Witness ==
    /\ pc["mem"] = "idle"
    /\ tick.exit = "wave"
    /\ lastEvictTime = now
    /\ now > 0
    /\ Len(apiLog) >= 2
    /\ \A k \in 1..Len(apiLog) : ~apiLog[k].ok

\* the step is a lookup of evictPodIfNotEvicted, made for the memory evictor,
\* that finds the pod in the evicted set
SkipStep ==
    /\ Len(attempts'["mem"]) = Len(attempts["mem"]) + 1
    /\ attempts'["mem"][Len(attempts'["mem"])].res = "skip"

\* C25: the evicted set is consulted for the eviction API call only. A wave
\* selects every BE pod the informer lists, in the evicted set or not; a
\* victim found in the evicted set has had killContainers called on it and
\* its memUsed counted in the released total, and the lookup that finds it
\* produces no API call, no audit record, no event and no change of the set.
C25_DedupOnlyTheApiCall ==
    [][/\ WaveTick =>
              \A k \in 1..Len(tick'.obs.allPods[1]) :
                  tick'.obs.allPods[1][k].qos = QoSBE =>
                      \E i \in 1..Len(tick'.bePodInfos) :
                          tick'.bePodInfos[i].pod.uid = tick'.obs.allPods[1][k].uid
       /\ SkipStep =>
              LET i == Len(attempts'["mem"])
                  uid == attempts'["mem"][i].uid
              IN /\ cacheGet(podsEvicted, uid, now)
                 /\ apiLog' = apiLog /\ emitted' = emitted
                 /\ podsEvicted' = podsEvicted
                 /\ tick.killCalls[i] = uid
                 /\ tick.bePodInfos[i].pod.uid = uid
                 /\ StopsOf(uid) = ExpectedStops(tick.bePodInfos[i].pod.containers)
                 /\ Len(tick.killCalls) =
                        ShortestPrefix(tick.bePodInfos, tick.memoryNeedRelease)]_vars

C25_Witness ==
    /\ pc["mem"] = "stamp"
    /\ \E i \in 1..Len(attempts["mem"]) :
          /\ attempts["mem"][i].res = "skip"
          /\ tick.killCalls[i] = attempts["mem"][i].uid
          /\ StopsOf(tick.killCalls[i]) # <<>>
          /\ tick.bePodInfos[i].memUsed > 0
          /\ \E k \in 1..Len(apiLog) : apiLog[k].uid = tick.killCalls[i] /\ apiLog[k].ok
          /\ \A k \in 1..Len(apiLog) : apiLog[k].uid = tick.killCalls[i] => apiLog[k].at < now

====
